---- MODULE Spec2Model ----
(***************************************************************************)
(* FuturEd dropout-risk pipeline: the FastAPI service (main.py), the Flask *)
(* application (app.py) and the command-line predictor                     *)
(* (prediccion_alumno.py), with the MongoDB collections they share.        *)
(*                                                                         *)
(* Python values are tagged records: None is Null, a str is Str(s), a      *)
(* number is Num(n), a dict is Map(m) with m a function on its keys.  A    *)
(* call either returns, Ok(v), or raises, Raise(e).                        *)
(***************************************************************************)
EXTENDS Integers, Sequences, FiniteSets, TLC

VARIABLES
    artifact,          \* modelo_entrenado/modelo.pkl and label_encoders.pkl on disk
    started,           \* the FastAPI startup event has run
    _model,            \* main.py global
    _label_encoders,   \* main.py global
    _feature_names,    \* main.py global
    bundle,            \* modelo_global.pkl and label_encoders.pkl of the command-line predictor
    doc,               \* the survey document handed to the preparation step
    X,                 \* what the preparation step returned or raised
    prob,              \* the classifier's output, in units of 0.00001
    clasif,            \* riesgo, motivo and recomendacion derived from prob
    modelo,            \* app.py global
    label_encoders,    \* app.py global
    encuestas,         \* db.encuestas, in insertion order
    predicciones,      \* db.predicciones, in insertion order
    clock,             \* the timestamps handed out so far
    resp,              \* the call just handled: request, response, what it did
    lastSync           \* the last sync call and how often it ran in a row

loadVars == <<artifact, started, _model, _label_encoders, _feature_names, bundle>>
prepVars == <<doc, X>>
bandVars == <<prob, clasif>>
appVars == <<modelo, label_encoders>>
dbVars == <<encuestas, predicciones, clock>>
callVars == <<resp, lastSync>>

vars == <<loadVars, prepVars, bandVars, appVars, dbVars, callVars>>

----------------------------------------------------------------------------
(* Python values *)

Null == [k |-> "null"]
Str(s) == [k |-> "str", s |-> s]
Num(n) == [k |-> "num", n |-> n]
Map(m) == [k |-> "map", m |-> m]
\* a bool
Bool(b) == [k |-> "bool", b |-> b]
\* a list
List(v) == [k |-> "list", v |-> v]
\* an object with the attributes attrs
Obj(attrs) == [k |-> "obj", attrs |-> attrs]

Ok(v) == [ok |-> TRUE, v |-> v]
Raise(e) == [ok |-> FALSE, err |-> e]

Range(s) == {s[i] : i \in DOMAIN s}

\* dict.get(key, default)
Get(d, key, default) == IF key \in DOMAIN d THEN d[key] ELSE default

\* str(n) of the small numbers the model uses, and its inverse
NumStr == <<"0", "1", "2", "3", "4", "5", "6", "7", "8", "9">>

IndexOf(seq, x) == CHOOSE i \in DOMAIN seq : seq[i] = x

\* str(v), as Series.astype(str) and str(raw) compute it
ToStr(v) ==
    CASE v.k = "str" -> v.s
      [] v.k = "num" -> NumStr[v.n + 1]
      [] v.k = "null" -> "None"
      [] OTHER -> "{}"

\* pandas.to_numeric(errors="coerce").fillna(0) on one cell
ToNumeric(v) ==
    IF v.k = "num" THEN v
    ELSE IF v.k = "str" /\ v.s \in Range(NumStr) THEN Num(IndexOf(NumStr, v.s) - 1)
    ELSE Num(0)

----------------------------------------------------------------------------
(* One-row DataFrame: the ordered column names and the row *)

Frame(cols, row) == [cols |-> cols, row |-> row]

\* df[names]
Select(df, names) == Frame(names, [c \in Range(names) |-> df.row[c]])

\* df.drop(columns=names, errors="ignore")
Drop(df, names) ==
    LET keep == SelectSeq(df.cols, LAMBDA c : c \notin names)
    IN Frame(keep, [c \in Range(keep) |-> df.row[c]])

----------------------------------------------------------------------------
(* Feature Normalizer *)

SectionOf ==
    [trabaja |-> "aspectos_socioeconomicos",
     ingreso_mensual |-> "aspectos_socioeconomicos",
     padecimiento_cronico |-> "condiciones_salud",
     atencion_psicologica |-> "condiciones_salud",
     horas_sueno |-> "condiciones_salud",
     alimentacion |-> "condiciones_salud",
     materias_reprobadas |-> "analisis_academico",
     promedio_previo |-> "analisis_academico",
     motivacion |-> "analisis_academico",
     dificultad_estudio |-> "analisis_academico",
     expectativa_terminar |-> "analisis_academico"]

Sections == {"aspectos_socioeconomicos", "condiciones_salud", "analisis_academico"}

FeatureCols ==
    <<"trabaja", "ingreso_mensual", "padecimiento_cronico", "atencion_psicologica",
      "horas_sueno", "alimentacion", "materias_reprobadas", "promedio_previo",
      "motivacion", "dificultad_estudio", "expectativa_terminar">>

IdentityCols == <<"id_alumno", "matricula">>

\* doc.get(section, {}) for each section; .get on the result raises
\* AttributeError when the result is not a dict
SectionsAreDicts(d) == \A sec \in Sections : Get(d, sec, Map(<<>>)).k = "map"

NormalizedRow(d) ==
    [c \in Range(IdentityCols) \cup Range(FeatureCols) |->
        IF c \in Range(IdentityCols) THEN Get(d, c, Null)
        ELSE Get(Get(d, SectionOf[c], Map(<<>>)).m, c, Null)]

\* main.py
_normalize_document_for_model(d) ==
    IF ~SectionsAreDicts(d) THEN Raise("AttributeError")
    ELSE Ok(Frame(IdentityCols \o FeatureCols, NormalizedRow(d)))

\* prediccion_alumno.py
normalizar_documento(d) ==
    IF ~SectionsAreDicts(d) THEN Raise("AttributeError")
    ELSE Ok(Frame(IdentityCols \o FeatureCols \o <<"abandona">>,
                  ("abandona" :> Get(d, "abandona", Str("No"))) @@ NormalizedRow(d)))

----------------------------------------------------------------------------
(* Boolean-like features and the categorical encoders *)

BoolCols == {"trabaja", "padecimiento_cronico", "atencion_psicologica"}

\* main.py: .map({"Sí": 1, "Si": 1, "No": 0}).fillna(0).astype(int)
MapSiNoService(v) == IF v \in {Str("Sí"), Str("Si")} THEN Num(1) ELSE Num(0)

\* prediccion_alumno.py: .map({"Sí": 1, "No": 0}).fillna(0).astype(int)
MapSiNoCli(v) == IF v = Str("Sí") THEN Num(1) ELSE Num(0)

\* LabelEncoder.transform of one value: the index of the value in classes_
transform(le, s) ==
    IF s \in Range(le) THEN Ok(Num(IndexOf(le, s) - 1)) ELSE Raise("ValueError")

\* main.py: try le.transform(df[col].astype(str)) except: 0
LabelEncodeService(le, v) ==
    LET r == transform(le, ToStr(v))
    IN IF r.ok THEN r.v ELSE Num(0)

\* prediccion_alumno.py: the value, else "NA", else classes_[0]; the
\* classes_[0] of an empty vocabulary is outside the try
LabelEncodeCli(le, raw) ==
    LET val0 == IF raw # Null THEN ToStr(raw) ELSE "NA"
    IN IF val0 \in Range(le) THEN Ok(transform(le, val0).v)
       ELSE IF "NA" \in Range(le) THEN Ok(transform(le, "NA").v)
       ELSE IF Len(le) = 0 THEN Raise("IndexError")
       ELSE Ok(transform(le, le[1]).v)

----------------------------------------------------------------------------
(* Inference preparation and alignment *)

\* if _feature_names: add the missing columns as 0, then df[_feature_names]
AlignService(df, fn) ==
    IF fn = Null \/ Len(fn.v) = 0 THEN df
    ELSE Select(Frame(df.cols,
                      [c \in Range(fn.v) \ Range(df.cols) |-> Num(0)] @@ df.row), fn.v)

\* one column of df through the Sí/No map and the label encoders of main.py
ServiceCell(raw, c, les) ==
    IF les # Null /\ c \in DOMAIN les
    THEN LabelEncodeService(les[c], IF c \in BoolCols THEN MapSiNoService(raw) ELSE raw)
    ELSE IF c \in BoolCols THEN MapSiNoService(raw) ELSE raw

\* main.py _prepare_X_from_document after the normalization
PrepareService(n, les, fn) ==
    IF ~n.ok THEN n
    ELSE Ok(AlignService(Frame(n.v.cols,
                               [c \in DOMAIN n.v.row |-> ServiceCell(n.v.row[c], c, les)]),
                         fn))

\* main.py
_prepare_X_from_document(d, m, les, fn) ==
    IF m = Null THEN Raise("Modelo no cargado")
    ELSE PrepareService(_normalize_document_for_model(d), les, fn)

\* one column of X_pred through the Sí/No map and the label encoders of
\* prediccion_alumno.py
CliCell(raw, c, les) ==
    IF c \in DOMAIN les
    THEN LabelEncodeCli(les[c], IF c \in BoolCols THEN MapSiNoCli(raw) ELSE raw)
    ELSE Ok(IF c \in BoolCols THEN MapSiNoCli(raw) ELSE raw)

\* the object columns go through pd.to_numeric
NumericCell(v) == IF v.k # "num" THEN ToNumeric(v) ELSE v

\* preparar_una_encuesta after the drop of the identity columns
EncodeCli(X_pred, les) ==
    IF \E c \in DOMAIN X_pred.row : ~CliCell(X_pred.row[c], c, les).ok
    THEN Raise("IndexError")
    ELSE Ok(Frame(X_pred.cols,
                  [c \in DOMAIN X_pred.row |->
                     NumericCell(CliCell(X_pred.row[c], c, les).v)]))

\* preparar_una_encuesta after the normalization
PrepareCli(n, les) ==
    IF ~n.ok THEN n
    ELSE EncodeCli(Drop(n.v, {"id_alumno", "abandona", "matricula"}), les)

\* prediccion_alumno.py
preparar_una_encuesta(encuesta, les) == PrepareCli(normalizar_documento(encuesta), les)

\* predecir_por_matricula: for col in modelo.feature_names_in_ ...
AlignCli(X_pred, m) ==
    IF "feature_names_in_" \notin DOMAIN m.attrs THEN Raise("AttributeError")
    ELSE Ok(Select(Frame(X_pred.cols,
                         [c \in Range(m.attrs["feature_names_in_"]) \ Range(X_pred.cols)
                            |-> Num(0)] @@ X_pred.row),
                   m.attrs["feature_names_in_"]))

----------------------------------------------------------------------------
(* Service start-up *)

\* list(_model.feature_names_in), None when the attribute access raises
load_feature_names(m) ==
    IF "feature_names_in" \in DOMAIN m.attrs THEN List(m.attrs["feature_names_in"])
    ELSE Null

\* a start-up whose except resets the encoders only
StartUpKeepsModel(a, fn0) ==
    IF a.model_ok /\ a.enc_ok
    THEN [m |-> a.model, les |-> a.encoders, fn |-> load_feature_names(a.model)]
    ELSE [m |-> IF a.model_ok THEN a.model ELSE Null, les |-> Null, fn |-> fn0]

\* the globals after the start-up event: both joblib.load calls succeed, or
\* the except resets _model and _label_encoders and leaves _feature_names
StartUp(a, fn0) ==
    IF a.model_ok /\ a.enc_ok
    THEN [m |-> a.model, les |-> a.encoders, fn |-> load_feature_names(a.model)]
    ELSE [m |-> Null, les |-> Null, fn |-> fn0]

load_resources ==
    /\ ~started
    /\ started' = TRUE
    /\ _model' = StartUp(artifact, _feature_names).m
    /\ _label_encoders' = StartUp(artifact, _feature_names).les
    /\ _feature_names' = StartUp(artifact, _feature_names).fn
    /\ UNCHANGED <<artifact, bundle, prepVars, bandVars, appVars, dbVars, callVars>>

\* app.py at import: modelo and label_encoders, both None when a load fails
AppStartUp(a) ==
    IF a.model_ok /\ a.enc_ok
    THEN [modelo |-> a.model, label_encoders |-> a.encoders]
    ELSE [modelo |-> Null, label_encoders |-> Null]

----------------------------------------------------------------------------
(* Risk Classifier: percentage and four-band policy *)

\* the largest classifier output, 1.00000
MaxProb == 100000

\* round(prob * 100, 2) in hundredths of a percent, ties to even
Round2(p) ==
    LET q == p \div 10
        r == p % 10
    IN IF r > 5 \/ (r = 5 /\ q % 2 = 1) THEN q + 1 ELSE q

\* the policy with every threshold tested by > instead of >=
FourBandStrict(porcentaje) ==
    IF porcentaje > 8000
    THEN [motivo |-> "Alto riesgo: múltiples factores académicos y personales",
          recomendacion |-> "Asesoría académica urgente y apoyo psicológico"]
    ELSE IF porcentaje > 6000
    THEN [motivo |-> "Riesgo medio: bajo promedio o problemas personales",
          recomendacion |-> "Tutoría y monitoreo continuo"]
    ELSE IF porcentaje > 4000
    THEN [motivo |-> "Riesgo leve: dificultad para estudiar o motivación baja",
          recomendacion |-> "Seguimiento por tutor y actividades motivacionales"]
    ELSE [motivo |-> "Sin riesgo aparente",
          recomendacion |-> "Mantener seguimiento regular"]

\* main.py _predict_single_doc, porcentaje in hundredths
FourBandService(porcentaje) ==
    IF porcentaje >= 8000
    THEN [motivo |-> "Alto riesgo: múltiples factores académicos y personales",
          recomendacion |-> "Asesoría académica urgente y apoyo psicológico"]
    ELSE IF porcentaje >= 6000
    THEN [motivo |-> "Riesgo medio: bajo promedio o problemas personales",
          recomendacion |-> "Tutoría y monitoreo continuo"]
    ELSE IF porcentaje >= 4000
    THEN [motivo |-> "Riesgo leve: dificultad para estudiar o motivación baja",
          recomendacion |-> "Seguimiento por tutor y actividades motivacionales"]
    ELSE [motivo |-> "Sin riesgo aparente",
          recomendacion |-> "Mantener seguimiento regular"]

\* prediccion_alumno.py predecir_por_matricula, riesgo in hundredths
FourBandCli(riesgo) ==
    IF riesgo >= 8000
    THEN [motivo |-> "Alto riesgo: multiples factores academicos y personales",
          recomendacion |-> "Asesoria academica urgente y apoyo psicologico"]
    ELSE IF riesgo >= 6000
    THEN [motivo |-> "Riesgo medio: bajo promedio o problemas personales",
          recomendacion |-> "Tutoria y monitoreo continuo"]
    ELSE IF riesgo >= 4000
    THEN [motivo |-> "Riesgo leve: dificultad para estudiar o motivación baja",
          recomendacion |-> "Seguimiento por tutor y actividades motivacionales"]
    ELSE [motivo |-> "Sin riesgo aparente",
          recomendacion |-> "Mantener seguimiento regular"]

NoClasif == [path |-> "none", riesgo |-> 0, motivo |-> "", recomendacion |-> ""]

BandIdle == prob = 0 /\ clasif = NoClasif

----------------------------------------------------------------------------
(* The collections *)

\* db.alumnos: a1 with names and a group that exists, a2 with empty names
\* and an id_grupo that is no ObjectId
Alumnos ==
    <<[_id |-> Str("a1"), matricula |-> Str("m1"), nombre |-> Str("Ana"),
       apellido_paterno |-> Str("Paz"), apellido_materno |-> Str("Gil"),
       id_grupo |-> Str("g1")],
      [_id |-> Str("a2"), matricula |-> Str("m2"), nombre |-> Str(""),
       apellido_paterno |-> Str(""), apellido_materno |-> Str(""),
       id_grupo |-> Str("zz")]>>

\* db.grupos
Grupos == <<[_id |-> Str("g1"), nombre |-> Str("IDGS-81")]>>

\* the strings bson.ObjectId accepts
ObjectIdStrings == {"g1", "g2"}

\* the matriculas a caller asks for: m9 belongs to nobody
Matriculas == {"m1", "m2", "m9"}

\* the nested sections of the surveys in the collection
SurveyContents ==
    {[aspectos_socioeconomicos |-> Map([trabaja |-> Str("No"), ingreso_mensual |-> Num(4)]),
      condiciones_salud |-> Map([padecimiento_cronico |-> Str("No"),
                                 atencion_psicologica |-> Str("No"),
                                 horas_sueno |-> Str("6-8"), alimentacion |-> Str("Buena")]),
      analisis_academico |-> Map([materias_reprobadas |-> Num(0), promedio_previo |-> Num(9),
                                  motivacion |-> Num(5), dificultad_estudio |-> Str("Salud"),
                                  expectativa_terminar |-> Str("Seguro")])],
     [aspectos_socioeconomicos |-> Map([trabaja |-> Str("Sí"), ingreso_mensual |-> Num(2)]),
      condiciones_salud |-> Map([padecimiento_cronico |-> Str("Sí"),
                                 atencion_psicologica |-> Str("Si"),
                                 horas_sueno |-> Str("<6"), alimentacion |-> Str("Mala")]),
      analisis_academico |-> Map([materias_reprobadas |-> Num(4), promedio_previo |-> Num(6),
                                  motivacion |-> Num(1), dificultad_estudio |-> Str("Dinero"),
                                  expectativa_terminar |-> Str("Inseguro")])],
     [aspectos_socioeconomicos |-> Map([trabaja |-> Str("No"), ingreso_mensual |-> Num(4)]),
      condiciones_salud |-> Null,
      analisis_academico |-> Map([materias_reprobadas |-> Num(1), promedio_previo |-> Num(8),
                                  motivacion |-> Num(3), dificultad_estudio |-> Str("Salud"),
                                  expectativa_terminar |-> Str("Seguro")])]}

\* a survey of student al, with the identity fields the survey form copies
SurveyOf(al, content) ==
    [id_alumno |-> al._id, matricula |-> al.matricula, nombre |-> al.nombre,
     apellido_paterno |-> al.apellido_paterno,
     apellido_materno |-> al.apellido_materno] @@ content

\* the surveys that arrive: any of the contents from the first student, the
\* complete working-student content from the second
SurveyDocs ==
    {SurveyOf(Alumnos[1], c) : c \in SurveyContents}
    \cup {SurveyOf(Alumnos[2], c) :
             c \in {x \in SurveyContents : x.aspectos_socioeconomicos.m.trabaja = Str("Sí")}}

\* the number of surveys the collection holds at most
MaxEncuestas == 2

\* the number of timestamps handed out at most
MaxClock == 2

\* find_one({key: val}): the first match in natural order, else None; a
\* null val also matches a document without the key
find_one(coll, key, val) ==
    LET hits == {i \in DOMAIN coll : Get(coll[i], key, Null) = val}
    IN IF hits = {} THEN Null
       ELSE coll[CHOOSE i \in hits : \A j \in hits : i <= j]

\* find({key: val}).sort("_id", 1): _id grows with insertion
find_sorted(coll, key, val) == SelectSeq(coll, LAMBDA e : Get(e, key, Null) = val)

\* an update that never matches the filter and inserts every time
UpdateOneInsert(coll, id, set) ==
    [coll |-> Append(coll, set @@ [id_alumno |-> id]), modified |-> 0, upserted |-> 1]

\* one update with upsert on {"id_alumno": id} and {"$set": set}
UpdateOne(coll, id, set) ==
    LET hits == {i \in DOMAIN coll : Get(coll[i], "id_alumno", Null) = id}
    IN IF hits = {}
       THEN [coll |-> Append(coll, set @@ [id_alumno |-> id]),
             modified |-> 0, upserted |-> 1]
       ELSE LET i == CHOOSE h \in hits : \A j \in hits : h <= j
                new == set @@ coll[i]
            IN [coll |-> [coll EXCEPT ![i] = new],
                modified |-> IF new = coll[i] THEN 0 ELSE 1, upserted |-> 0]

\* the first n operations of an ordered bulk write, applied one by one
RECURSIVE bulk_write(_, _, _)
bulk_write(coll, ops, n) ==
    IF n = 0 THEN [coll |-> coll, modified |-> 0, upserted |-> 0]
    ELSE LET before == bulk_write(coll, ops, n - 1)
             this == UpdateOne(before.coll, ops[n].filter, ops[n].set)
         IN [coll |-> this.coll,
             modified |-> before.modified + this.modified,
             upserted |-> before.upserted + this.upserted]

----------------------------------------------------------------------------
(* The trained classifier, external to the repository: any deterministic  *)
(* function of the vector it is handed.  This one adds up the numeric     *)
(* cells and answers from a table that holds a failure and a value on     *)
(* each side of a threshold.                                              *)

ProbaTable == <<Ok(12345), Ok(79996), Raise("ValueError"), Ok(55000)>>

RECURSIVE CellSum(_, _)
CellSum(df, i) ==
    IF i = 0 THEN 0
    ELSE CellSum(df, i - 1)
         + (IF df.row[df.cols[i]].k = "num" THEN df.row[df.cols[i]].n ELSE 0)

\* _model.predict_proba(X)[:, 1][0] and modelo.predict(X_pred)[0]
predict_proba(m, df) == ProbaTable[(CellSum(df, Len(df.cols)) % Len(ProbaTable)) + 1]

----------------------------------------------------------------------------
(* Scoring one document in the service *)

\* bool(v)
Truthy(v) ==
    CASE v.k = "null" -> FALSE
      [] v.k = "str" -> v.s # ""
      [] v.k = "num" -> v.n # 0
      [] v.k = "map" -> DOMAIN v.m # {}
      [] OTHER -> TRUE

\* PredictResult(...) from the document and the rounded percentage
BuildResult(d, porcentaje, ng, grupo) ==
    IF ~Truthy(ng) /\ grupo.k # "map"
    THEN [ok |-> FALSE, err |-> "AttributeError", invoked |-> TRUE]
    ELSE [ok |-> TRUE, invoked |-> TRUE,
          v |-> [id_alumno |-> Get(d, "id_alumno", Null),
                 matricula |-> Get(d, "matricula", Null),
                 nombre_completo |->
                    IF {"nombre", "apellido_paterno", "apellido_materno"} \subseteq DOMAIN d
                    THEN Str(ToStr(d["nombre"]) \o " " \o ToStr(d["apellido_paterno"])
                             \o " " \o ToStr(d["apellido_materno"]))
                    ELSE Null,
                 nombre_grupo |-> IF Truthy(ng) THEN ng ELSE Get(grupo.m, "nombre", Null),
                 riesgo |-> Num(porcentaje),
                 motivo |-> Str(FourBandService(porcentaje).motivo),
                 recomendacion |-> Str(FourBandService(porcentaje).recomendacion)]]

\* _predict_single_doc from the classifier's answer on
ScoreService(d, p) ==
    IF ~p.ok THEN [ok |-> FALSE, err |-> p.err, invoked |-> TRUE]
    ELSE BuildResult(d, Round2(p.v), Get(d, "nombre_grupo", Null),
                     IF Truthy(Get(d, "grupo", Map(<<>>))) THEN Get(d, "grupo", Map(<<>>))
                     ELSE Map(<<>>))

\* _predict_single_doc from the prepared vector on
ClassifyService(d, m, Xo) ==
    IF ~Xo.ok THEN [ok |-> FALSE, err |-> Xo.err, invoked |-> FALSE]
    ELSE ScoreService(d, predict_proba(m, Xo.v))

\* main.py
_predict_single_doc(d, m, les, fn) ==
    ClassifyService(d, m, _prepare_X_from_document(d, m, les, fn))

\* what a handler did: its request, its HTTP status and detail (0 and ""
\* outside HTTP), its body, the outcome of every scoring it ran, the upserts
\* it submitted and how many of them the store applied
Resp(op, arg, status, detail, body, calls, ops, written) ==
    [op |-> op, arg |-> arg, status |-> status, detail |-> detail, body |-> body,
     calls |-> calls, ops |-> ops, written |-> written]

NoResp == Resp("none", Null, 0, "", Null, <<>>, <<>>, 0)

NoSync == [op |-> "none", arg |-> Null, n |-> 0]

SystemIdle ==
    /\ modelo = Null
    /\ label_encoders = Null
    /\ encuestas = <<>>
    /\ predicciones = <<>>
    /\ clock = 0
    /\ resp = NoResp
    /\ lastSync = NoSync

----------------------------------------------------------------------------
(* The service endpoints of main.py *)

health ==
    /\ started
    /\ resp' = Resp("health", Null, 200, "", [status |-> "ok", model_loaded |-> _model # Null],
                    <<>>, <<>>, 0)
    /\ UNCHANGED <<loadVars, prepVars, bandVars, appVars, dbVars, lastSync>>

\* the fields EncuestaInput declares; .dict() has each, None when omitted
DeclaredFields ==
    {"id_alumno", "matricula", "aspectos_socioeconomicos", "condiciones_salud",
     "analisis_academico", "nombre", "apellido_paterno", "apellido_materno",
     "nombre_grupo"}

EncuestaDict(body) == [f \in DeclaredFields \cup DOMAIN body |-> Get(body, f, Null)]

\* the request bodies of /predict: a whole survey, or only some sections
PredictBodies ==
    SurveyDocs \cup
    {[aspectos_socioeconomicos |-> c.aspectos_socioeconomicos,
      analisis_academico |-> c.analisis_academico] : c \in SurveyContents}

\* the outcome of one scoring, as the handler sees it
CallOf(d, r) ==
    [id |-> Get(d, "id_alumno", Null), ok |-> r.ok,
     err |-> IF r.ok THEN "" ELSE r.err, invoked |-> r.invoked]

\* return the result, or the except turns the exception into a 500
Answer(op, arg, d, r) ==
    IF r.ok THEN Resp(op, arg, 200, "", r.v, <<CallOf(d, r)>>, <<>>, 0)
    ELSE Resp(op, arg, 500, r.err, Null, <<CallOf(d, r)>>, <<>>, 0)

Scored(op, arg, d) ==
    Answer(op, arg, d, _predict_single_doc(d, _model, _label_encoders, _feature_names))

predict_single ==
    /\ started
    /\ \E body \in PredictBodies :
          resp' = Scored("predict", Map(body), EncuestaDict(body))
    /\ UNCHANGED <<loadVars, prepVars, bandVars, appVars, dbVars, lastSync>>

\* the payloads of the lookup endpoints: the key may be missing
Payloads(key, values) == {<<>>} \cup {(key :> Str(v)) : v \in values}

\* an HTTPException raised inside the try is caught by except Exception and
\* raised again as a 500 whose detail is str(e)
Swallowed(op, arg, status, detail) ==
    Resp(op, arg, 500, status \o ": " \o detail, Null, <<>>, <<>>, 0)

predict_from_db ==
    /\ started
    /\ \E payload \in Payloads("id_alumno", {"a1", "a2", "a9"}) :
          resp' =
            IF "id_alumno" \notin DOMAIN payload
            THEN Resp("from_db", Map(payload), 400, "Falta id_alumno", Null, <<>>, <<>>, 0)
            ELSE LET enc == find_one(encuestas, "id_alumno", payload["id_alumno"])
                 IN IF enc = Null
                    THEN Swallowed("from_db", Map(payload), "404", "Encuesta no encontrada")
                    ELSE Scored("from_db", Map(payload), enc)
    /\ UNCHANGED <<loadVars, prepVars, bandVars, appVars, dbVars, lastSync>>

\* dict.setdefault
SetDefault(d, key, v) == IF key \in DOMAIN d THEN d ELSE (key :> v) @@ d

predict_by_matricula ==
    /\ started
    /\ \E payload \in Payloads("matricula", Matriculas) :
          resp' =
            IF "matricula" \notin DOMAIN payload
            THEN Resp("by_matricula", Map(payload), 400, "Falta matricula", Null,
                      <<>>, <<>>, 0)
            ELSE
            LET alumno == find_one(Alumnos, "matricula", payload["matricula"])
            IN IF alumno = Null
               THEN Swallowed("by_matricula", Map(payload), "404", "Alumno no encontrado")
               ELSE
               LET id == Str(ToStr(Get(alumno, "_id", Null)))
                   enc == find_one(encuestas, "id_alumno", id)
               IN IF enc = Null
                  THEN Swallowed("by_matricula", Map(payload), "404",
                                 "Encuesta no encontrada para el alumno")
                  ELSE Scored("by_matricula", Map(payload),
                         SetDefault(SetDefault(SetDefault(SetDefault(SetDefault(SetDefault(
                           enc, "id_alumno", id),
                           "matricula", Get(alumno, "matricula", Null)),
                           "nombre", Get(alumno, "nombre", Null)),
                           "apellido_paterno", Get(alumno, "apellido_paterno", Null)),
                           "apellido_materno", Get(alumno, "apellido_materno", Null)),
                           "nombre_grupo", Get(alumno, "nombre_grupo", Null)))
    /\ UNCHANGED <<loadVars, prepVars, bandVars, appVars, dbVars, lastSync>>

\* the for loop over the first i surveys: each survey with its scoring
RECURSIVE BatchLoop(_, _, _, _, _)
BatchLoop(encs, i, m, les, fn) ==
    IF i = 0 THEN <<>>
    ELSE Append(BatchLoop(encs, i - 1, m, les, fn),
                [enc |-> encs[i], r |-> _predict_single_doc(encs[i], m, les, fn)])

\* the loop that leaves at the first survey that fails to score
BatchResultsAbort(scored) ==
    LET bad == {i \in DOMAIN scored : ~scored[i].r.ok}
        n == IF bad = {} THEN Len(scored)
             ELSE (CHOOSE i \in bad : \A j \in bad : i <= j) - 1
    IN [j \in 1..n |-> scored[j].r.v]

\* results: one per survey that scored; the except skips the others
BatchResults(scored) ==
    LET kept == SelectSeq(scored, LAMBDA x : x.r.ok)
    IN [j \in DOMAIN kept |-> kept[j].r.v]

\* UpdateOne({'id_alumno': u['id_alumno']}, {'$set': u}, upsert=True)
UpsertOf(u) == [filter |-> u.id_alumno, set |-> u]

\* the operations handed to bulk_write
BatchOps(results, save) ==
    IF save THEN [j \in DOMAIN results |-> UpsertOf(results[j])] ELSE <<>>

\* the next n of lastSync for a sync call that completed
Ran(op, arg) ==
    [op |-> op, arg |-> arg,
     n |-> IF lastSync.op = op /\ lastSync.arg = arg /\ lastSync.n >= 1 THEN 2 ELSE 1]

predict_batch ==
    /\ started
    /\ \E save \in BOOLEAN :
       \E scored \in {BatchLoop(encuestas, Len(encuestas), _model, _label_encoders,
                                _feature_names)} :
       \E calls \in {[i \in DOMAIN scored |-> CallOf(scored[i].enc, scored[i].r)]} :
       \E ops \in {BatchOps(BatchResults(scored), save)} :
         IF save /\ Len(ops) > 0
         THEN \E n \in 0..Len(ops) :
              \E result \in {bulk_write(predicciones, ops, n)} :
                 /\ predicciones' = result.coll
                 /\ IF n = Len(ops)
                    THEN /\ resp' = Resp("batch", Bool(save), 200, "",
                                         [predicciones_procesadas |-> Len(ops),
                                          modified |-> result.modified,
                                          upserted |-> result.upserted], calls, ops, n)
                         /\ lastSync' = Ran("batch", Null)
                    ELSE /\ resp' = Resp("batch", Bool(save), 500, "BulkWriteError", Null,
                                         calls, ops, n)
                         /\ lastSync' = NoSync
         ELSE /\ resp' = Resp("batch", Bool(save), 200, "",
                              [predicciones_procesadas |-> Len(BatchResults(scored))],
                              calls, <<>>, 0)
              /\ lastSync' = IF save THEN Ran("batch", Null) ELSE lastSync
              /\ UNCHANGED predicciones
    /\ UNCHANGED <<loadVars, prepVars, bandVars, appVars, encuestas, clock>>

\* a survey arrives in db.encuestas; _id grows with insertion
InsertSurvey ==
    /\ Len(encuestas) < MaxEncuestas
    /\ \E d \in SurveyDocs :
          encuestas' = Append(encuestas, ("_id" :> Num(Len(encuestas) + 1)) @@ d)
    /\ resp' = NoResp
    /\ lastSync' = NoSync
    /\ UNCHANGED <<loadVars, prepVars, bandVars, appVars, predicciones, clock>>

----------------------------------------------------------------------------
(* The command-line predictor, prediccion_alumno.py *)

\* every string a feature can print as, in the order sorted() gives
StringOrder ==
    <<"0", "1", "2", "3", "4", "5", "6", "6-8", "7", "8", "9", "<6", ">8", "Buena",
      "Dinero", "Inseguro", "Mala", "NA", "None", "Regular", "Salud", "Seguro", "Tiempo">>

\* LabelEncoder.fit: the distinct values, sorted
fit(values) == SelectSeq(StringOrder, LAMBDA x : x \in values)

\* the features dropna(subset=required) looks at
RequiredCols ==
    {"trabaja", "ingreso_mensual", "padecimiento_cronico", "atencion_psicologica",
     "materias_reprobadas", "promedio_previo", "motivacion", "dificultad_estudio",
     "expectativa_terminar", "abandona"}

\* the normalized rows that survive dropna(subset=required)
ValidRows(encs) ==
    SelectSeq([i \in DOMAIN encs |-> normalizar_documento(encs[i]).v.row],
              LAMBDA r : \A c \in RequiredCols : r[c] # Null)

\* a training cell after the Sí/No map
TrainCell(r, c) == IF c \in BoolCols THEN MapSiNoCli(r[c]) ELSE r[c]

\* the columns of X that select_dtypes(include=["object"]) returns
ObjectCols(df) ==
    {c \in Range(FeatureCols) :
        \/ \E i \in DOMAIN df : TrainCell(df[i], c).k = "str"
        \/ \A i \in DOMAIN df : TrainCell(df[i], c) = Null}

\* the encoders fitted on the valid rows and the model fitted on X
FitRows(df) ==
    IF df = <<>> THEN Raise("No hay encuestas válidas")
    ELSE Ok([model |-> Obj([feature_names_in_ |-> FeatureCols]),
             encoders |-> [c \in ObjectCols(df) |->
                             fit({ToStr(TrainCell(df[i], c)) : i \in DOMAIN df})]])

\* preparar_datos_regresion followed by the fit
preparar_datos_regresion(encs) ==
    IF \E i \in DOMAIN encs : ~normalizar_documento(encs[i]).ok THEN Raise("AttributeError")
    ELSE FitRows(ValidRows(encs))

\* load the two files, else train on every survey of the collection
cargar_o_entrenar(b, encs) ==
    IF b # Null THEN Ok(b)
    ELSE IF encs = <<>> THEN Raise("No hay encuestas en la base de datos para entrenar.")
    ELSE preparar_datos_regresion(encs)

\* str.strip() of the name fields the collection holds
Strip(x) == IF x \in {"", " "} THEN "" ELSE x

\* " ".join(filter(None, parts))
RECURSIVE JoinNonEmpty(_)
JoinNonEmpty(parts) ==
    IF parts = <<>> THEN ""
    ELSE IF Head(parts) = "" THEN JoinNonEmpty(Tail(parts))
    ELSE IF JoinNonEmpty(Tail(parts)) = "" THEN Head(parts)
    ELSE Head(parts) \o " " \o JoinNonEmpty(Tail(parts))

\* nombre_completo of predecir_por_matricula
FullName(nombre, paterno, materno) ==
    IF Strip(JoinNonEmpty(<<Strip(nombre), Strip(paterno), Strip(materno)>>)) = ""
    THEN "Desconocido"
    ELSE Strip(JoinNonEmpty(<<Strip(nombre), Strip(paterno), Strip(materno)>>))

\* the group of the student when ObjectId() and the lookup went through
GroupFound(grupo) == IF grupo = Null THEN "Desconocido" ELSE grupo.nombre.s

\* nombre_grupo of predecir_por_matricula: the except gives "Desconocido"
GroupName(id) ==
    IF id.k # "str" \/ id.s \notin ObjectIdStrings THEN "Desconocido"
    ELSE GroupFound(find_one(Grupos, "_id", id))

CliError(matricula, msg) ==
    Resp("cli", Str(matricula), 0, "", [error |-> msg], <<>>, <<>>, 0)

\* an exception nothing catches ends the process
CliCrash(matricula, err) == Resp("cli", Str(matricula), 1, err, Null, <<>>, <<>>, 0)

\* predecir_por_matricula stage by stage, up to the timestamp: an early
\* response, or the assessment to store
Resultado(matricula, alumno, riesgo, nombre, paterno, materno) ==
    IF nombre.k # "str" \/ paterno.k # "str" \/ materno.k # "str"
    THEN Raise(CliCrash(matricula, "AttributeError"))
    ELSE Ok([id_alumno |-> alumno._id,
             resultado |->
               [matricula |-> Str(matricula),
                nombre_completo |-> Str(FullName(nombre.s, paterno.s, materno.s)),
                nombre_grupo |-> Str(GroupName(Get(alumno, "id_grupo", Null))),
                riesgo |-> Num(riesgo),
                motivo |-> Str(FourBandCli(riesgo).motivo),
                recomendacion |-> Str(FourBandCli(riesgo).recomendacion)]])

AssessPredicted(matricula, alumno, riesgo_pred) ==
    IF ~riesgo_pred.ok THEN Raise(CliError(matricula, "Error al predecir"))
    ELSE Resultado(matricula, alumno, Round2(riesgo_pred.v),
                   Get(alumno, "nombre", Str("")), Get(alumno, "apellido_paterno", Str("")),
                   Get(alumno, "apellido_materno", Str("")))

AssessAligned(matricula, alumno, modelo_, X_pred) ==
    IF ~X_pred.ok THEN Raise(CliCrash(matricula, X_pred.err))
    ELSE AssessPredicted(matricula, alumno, predict_proba(modelo_, X_pred.v))

AssessPrepared(matricula, alumno, modelo_, prepared) ==
    IF ~prepared.ok THEN Raise(CliCrash(matricula, prepared.err))
    ELSE AssessAligned(matricula, alumno, modelo_, AlignCli(prepared.v, modelo_))

AssessLoaded(matricula, alumno, ultima, loaded) ==
    IF ~loaded.ok THEN Raise(CliError(matricula, "Error entrenando o cargando el modelo"))
    ELSE AssessPrepared(matricula, alumno, loaded.v.model,
                        preparar_una_encuesta(ultima, loaded.v.encoders))

AssessSurveys(matricula, alumno, mine, loaded) ==
    IF mine = <<>>
    THEN Raise(CliError(matricula, "No se encontraron encuestas para el alumno"))
    ELSE AssessLoaded(matricula, alumno, mine[Len(mine)], loaded)

Assess(matricula, alumno, encs, loaded) ==
    IF alumno = Null THEN Raise(CliError(matricula, "No se encontró alumno con matrícula"))
    ELSE AssessSurveys(matricula, alumno, find_sorted(encs, "id_alumno", alumno._id), loaded)

\* cargar_o_entrenar ran, without files, and trained
Trained(alumno, encs, b, loaded) ==
    /\ alumno # Null
    /\ find_sorted(encs, "id_alumno", alumno._id) # <<>>
    /\ b = Null
    /\ loaded.ok

predecir_por_matricula ==
    /\ \E matricula \in Matriculas :
       \E alumno \in {find_one(Alumnos, "matricula", Str(matricula))} :
       \E loaded \in {cargar_o_entrenar(bundle, encuestas)} :
       \E a \in {Assess(matricula, alumno, encuestas, loaded)} :
         /\ \* joblib.dump after a training may fail, silently
            IF Trained(alumno, encuestas, bundle, loaded)
            THEN bundle' \in {bundle, loaded.v}
            ELSE bundle' = bundle
         /\ IF ~a.ok
            THEN /\ resp' = a.err
                 /\ lastSync' = NoSync
                 /\ UNCHANGED <<predicciones, clock>>
            ELSE /\ clock < MaxClock
                 /\ clock' = clock + 1
                 /\ \E resultado \in {[timestamp |-> Num(clock + 1)] @@ a.v.resultado} :
                    \E stored \in BOOLEAN :
                      IF stored
                      THEN /\ predicciones' =
                                UpdateOne(predicciones, a.v.id_alumno, resultado).coll
                           /\ resp' = Resp("cli", Str(matricula), 0, "", resultado, <<>>,
                                           <<[filter |-> a.v.id_alumno, set |-> resultado]>>, 1)
                           /\ lastSync' = Ran("cli", Str(matricula))
                      ELSE /\ UNCHANGED predicciones
                           /\ resp' = Resp("cli", Str(matricula), 0, "",
                                 [warning_guardado |-> Str("No se pudo guardar prediccion")]
                                   @@ resultado, <<>>,
                                 <<[filter |-> a.v.id_alumno, set |-> resultado]>>, 0)
                           /\ lastSync' = NoSync
    /\ UNCHANGED <<artifact, started, _model, _label_encoders, _feature_names,
                   prepVars, bandVars, appVars, encuestas>>

----------------------------------------------------------------------------
(* The Flask application, app.py *)

estado ==
    /\ resp' = Resp("estado", Null, 200, "", [modelo_cargado |-> modelo # Null],
                    <<>>, <<>>, 0)
    /\ UNCHANGED <<loadVars, prepVars, bandVars, appVars, dbVars, lastSync>>

\* predecir_alumno_individual catches everything: a prediction or an
\* error_prediccion, both inside a 200
buscar_alumno ==
    /\ \E matricula \in Matriculas :
         LET alumno == find_one(Alumnos, "matricula", Str(matricula))
             encuesta == IF alumno = Null THEN Null
                         ELSE find_one(encuestas, "id_alumno", alumno._id)
         IN IF alumno = Null
            THEN resp' = Resp("buscar_alumno", Str(matricula), 404, "Alumno no encontrado",
                              Null, <<>>, <<>>, 0)
            ELSE IF encuesta = Null
            THEN resp' = Resp("buscar_alumno", Str(matricula), 404,
                              "No se encontró encuesta para este alumno", Null, <<>>, <<>>, 0)
            ELSE IF modelo # Null /\ label_encoders # Null /\ DOMAIN label_encoders # {}
            THEN \E predicted \in BOOLEAN :
                   resp' = Resp("buscar_alumno", Str(matricula), 200, "",
                                [encuesta_disponible |-> TRUE, prediccion |-> predicted],
                                <<>>, <<>>, 0)
            ELSE resp' = Resp("buscar_alumno", Str(matricula), 500,
                              "Modelo no disponible para predicciones", Null, <<>>, <<>>, 0)
    /\ UNCHANGED <<loadVars, prepVars, bandVars, appVars, dbVars, lastSync>>

----------------------------------------------------------------------------
(* The artifacts and documents the preparation step is exercised on *)

\* fitted vocabularies, classes_ in sorted order
EncodersPlain ==
    [horas_sueno |-> <<"6-8", "<6">>,
     alimentacion |-> <<"Buena", "Regular">>,
     dificultad_estudio |-> <<"Dinero", "Salud">>,
     expectativa_terminar |-> <<"Inseguro", "Seguro">>]

\* a vocabulary with the "NA" placeholder and one with the str(None) class
EncodersWithNA ==
    [horas_sueno |-> <<"6-8", "None">>,
     alimentacion |-> <<"Buena", "NA", "Regular">>,
     dificultad_estudio |-> <<"Dinero", "Salud">>,
     expectativa_terminar |-> <<"Inseguro", "Seguro">>]

EncoderDicts == {EncodersPlain, EncodersWithNA}

\* a classifier fitted on other columns than the survey schema
OtherCols == <<"promedio_previo", "edad", "trabaja">>

Classifiers ==
    {Obj(<<>>), Obj([feature_names_in_ |-> FeatureCols]),
     Obj([feature_names_in_ |-> OtherCols])}

Artifacts ==
    [model_ok : BOOLEAN, enc_ok : BOOLEAN, model : Classifiers, encoders : EncoderDicts]

Bundles == [model : Classifiers, encoders : EncoderDicts]

SocioSections ==
    {Map([trabaja |-> Str("Sí"), ingreso_mensual |-> Num(2)]),
     Map([trabaja |-> Str("Si"), ingreso_mensual |-> Null]),
     Map([trabaja |-> Str("SÍ"), ingreso_mensual |-> Num(3)])}

SaludSections ==
    {Map([padecimiento_cronico |-> Str("No"), atencion_psicologica |-> Str("Sí"),
          horas_sueno |-> Str("6-8"), alimentacion |-> Str("Buena")]),
     Map([padecimiento_cronico |-> Str("Sí"), atencion_psicologica |-> Str("No"),
          horas_sueno |-> Null, alimentacion |-> Str("Mala")]),
     Map([padecimiento_cronico |-> Str("No"), horas_sueno |-> Str("<6")])}

AcademicoSections ==
    {Map([materias_reprobadas |-> Num(0), promedio_previo |-> Num(9),
          motivacion |-> Num(4), dificultad_estudio |-> Str("Salud"),
          expectativa_terminar |-> Str("Seguro")]),
     Map([materias_reprobadas |-> Num(3), promedio_previo |-> Null,
          motivacion |-> Str("2"), dificultad_estudio |-> Str("Tiempo")])}

\* a key that is absent, a key that is None, or a dict
Absent == [k |-> "absent"]

WithKey(d, key, v) == IF v = Absent THEN d ELSE (key :> v) @@ d

PrepDocs ==
    {WithKey(WithKey(WithKey([id_alumno |-> Str("a1"), matricula |-> Str("m1")],
        "aspectos_socioeconomicos", so), "condiciones_salud", sa), "analisis_academico", ac) :
        so \in SocioSections \cup {Absent, Null},
        sa \in SaludSections \cup {Absent, Null},
        ac \in AcademicoSections \cup {Absent, Null}}

NoResult == [path |-> "none", out |-> Null]

----------------------------------------------------------------------------
(* The preparation step on its own: start-up, then one document *)

InitPrep ==
    /\ artifact \in Artifacts
    /\ bundle \in Bundles
    /\ started = FALSE
    /\ _model = Null
    /\ _label_encoders = Null
    /\ _feature_names = Null
    /\ doc \in PrepDocs
    /\ X = NoResult
    /\ BandIdle
    /\ SystemIdle

PrepareInService ==
    /\ started
    /\ X' = [path |-> "service",
             out |-> _prepare_X_from_document(doc, _model, _label_encoders, _feature_names)]
    /\ UNCHANGED <<loadVars, doc, bandVars, appVars, dbVars, callVars>>

PrepareInCli ==
    /\ \E p \in {preparar_una_encuesta(doc, bundle.encoders)} :
          X' = [path |-> "cli", out |-> IF p.ok THEN AlignCli(p.v, bundle.model) ELSE p]
    /\ UNCHANGED <<loadVars, doc, bandVars, appVars, dbVars, callVars>>

\* the Normalizer alone, as each file defines it
NormService ==
    /\ X' = [path |-> "normalize_service", out |-> _normalize_document_for_model(doc)]
    /\ UNCHANGED <<loadVars, doc, bandVars, appVars, dbVars, callVars>>

NormCli ==
    /\ X' = [path |-> "normalize_cli", out |-> normalizar_documento(doc)]
    /\ UNCHANGED <<loadVars, doc, bandVars, appVars, dbVars, callVars>>

NextPrep == load_resources \/ NormService \/ NormCli \/ PrepareInService \/ PrepareInCli

SpecPrep == InitPrep /\ [][NextPrep]_vars

----------------------------------------------------------------------------
(* The artifacts the service and the predictor run with *)

SysArtifacts ==
    {a \in Artifacts : a.model = Obj([feature_names_in_ |-> FeatureCols])
                       /\ a.encoders = EncodersPlain}

\* the predictor's two files: missing, or saved by an earlier run
SysBundles == {Null, [model |-> Obj([feature_names_in_ |-> FeatureCols]),
                      encoders |-> EncodersWithNA]}

----------------------------------------------------------------------------
(* Scoring and syncing: the batch endpoint of the started service and the  *)
(* command-line predictor against the shared collections                   *)

Init ==
    /\ artifact \in {a \in SysArtifacts : a.model_ok = a.enc_ok}
    /\ bundle \in SysBundles
    /\ started = TRUE
    /\ _model = StartUp(artifact, Null).m
    /\ _label_encoders = StartUp(artifact, Null).les
    /\ _feature_names = StartUp(artifact, Null).fn
    /\ modelo = AppStartUp(artifact).modelo
    /\ label_encoders = AppStartUp(artifact).label_encoders
    /\ doc = <<>>
    /\ X = NoResult
    /\ BandIdle
    /\ encuestas = <<>>
    /\ predicciones = <<>>
    /\ clock = 0
    /\ resp = NoResp
    /\ lastSync = NoSync

Next == InsertSurvey \/ predict_batch \/ predecir_por_matricula

Spec == Init /\ [][Next]_vars

----------------------------------------------------------------------------
(* The endpoints of both web applications, from start-up on *)

InitApi ==
    /\ artifact \in SysArtifacts
    /\ bundle = Null
    /\ started = FALSE
    /\ _model = Null
    /\ _label_encoders = Null
    /\ _feature_names = Null
    /\ modelo = AppStartUp(artifact).modelo
    /\ label_encoders = AppStartUp(artifact).label_encoders
    /\ doc = <<>>
    /\ X = NoResult
    /\ BandIdle
    /\ encuestas = <<>>
    /\ predicciones = <<>>
    /\ clock = 0
    /\ resp = NoResp
    /\ lastSync = NoSync

NextApi ==
    \/ load_resources
    \/ InsertSurvey
    \/ health
    \/ predict_single
    \/ predict_from_db
    \/ predict_by_matricula
    \/ predict_batch
    \/ estado
    \/ buscar_alumno

SpecApi == InitApi /\ [][NextApi]_vars

----------------------------------------------------------------------------
(* Claims on the preparation step *)

\* the section of feature c is missing from d (absent or None), or the
\* section is there without the field
FeatureMissing(d, c) ==
    \/ SectionOf[c] \notin DOMAIN d
    \/ d[SectionOf[c]].k # "map"
    \/ c \notin DOMAIN d[SectionOf[c]].m

\* C1: normalizing a document with any subset of the three sections missing
\* (key absent or value None) raises nothing and returns every schema
\* feature key, None for each feature whose section or field is missing.
C1_NormalizeTotal ==
    X.path \in {"normalize_service", "normalize_cli"} =>
        /\ X.out.ok
        /\ Range(FeatureCols) \subseteq Range(X.out.v.cols)
        /\ \A c \in Range(FeatureCols) : FeatureMissing(doc, c) => X.out.v.row[c] = Null

\* the code the claim defines for a null or unseen value
FallbackCode(le) ==
    IF "NA" \in Range(le) THEN Num(IndexOf(le, "NA") - 1)
    ELSE IF Len(le) > 0 THEN Num(IndexOf(le, le[1]) - 1)
    ELSE Num(0)

\* the encoders the path of X applied
EncodersOf(path) == IF path = "service" THEN _label_encoders ELSE bundle.encoders

\* the raw value of feature c is None or outside the fitted vocabulary
NullOrUnseen(d, c, le) ==
    LET raw == NormalizedRow(d)[c]
    IN raw = Null \/ ToStr(raw) \notin Range(le)

\* C2: for a categorical feature with a fitted encoder, a value that is None
\* or outside the vocabulary is encoded, without raising, as the code of "NA"
\* if the vocabulary has it, else of the first class, else 0.
C2_UnseenFallback ==
    (X.path \in {"service", "cli"} /\ X.out.ok) =>
        \A c \in DOMAIN EncodersOf(X.path) \cap Range(X.out.v.cols) :
            NullOrUnseen(doc, c, EncodersOf(X.path)[c]) =>
                X.out.v.row[c] = FallbackCode(EncodersOf(X.path)[c])

\* the classifier the path of X hands its vector to
ClassifierOf(path) == IF path = "service" THEN _model ELSE bundle.model

\* C3: when the loaded classifier carries its ordered column list, the vector
\* handed to it has exactly those columns in that order, 0 in each column the
\* encoded record lacks.
C3_AlignedToClassifier ==
    (/\ X.path \in {"service", "cli"}
     /\ X.out.ok
     /\ "feature_names_in_" \in DOMAIN ClassifierOf(X.path).attrs) =>
        /\ X.out.v.cols = ClassifierOf(X.path).attrs["feature_names_in_"]
        /\ \A c \in Range(X.out.v.cols) \ Range(FeatureCols) : X.out.v.row[c] = Num(0)


----------------------------------------------------------------------------
(* The band policy on its own: one classifier output, then its bands *)

InitBand ==
    /\ artifact = [model_ok |-> TRUE, enc_ok |-> TRUE,
                   model |-> Obj([feature_names_in_ |-> FeatureCols]),
                   encoders |-> EncodersPlain]
    /\ bundle = [model |-> Obj([feature_names_in_ |-> FeatureCols]),
                 encoders |-> EncodersPlain]
    /\ started = FALSE
    /\ _model = Null
    /\ _label_encoders = Null
    /\ _feature_names = Null
    /\ doc = <<>>
    /\ X = NoResult
    /\ prob \in 0..MaxProb
    /\ clasif = NoClasif
    /\ SystemIdle

BandService ==
    /\ LET porcentaje == Round2(prob)
       IN clasif' = [path |-> "service", riesgo |-> porcentaje,
                     motivo |-> FourBandService(porcentaje).motivo,
                     recomendacion |-> FourBandService(porcentaje).recomendacion]
    /\ UNCHANGED <<loadVars, prepVars, prob, appVars, dbVars, callVars>>

BandCli ==
    /\ LET riesgo == Round2(prob)
       IN clasif' = [path |-> "cli", riesgo |-> riesgo,
                     motivo |-> FourBandCli(riesgo).motivo,
                     recomendacion |-> FourBandCli(riesgo).recomendacion]
    /\ UNCHANGED <<loadVars, prepVars, prob, appVars, dbVars, callVars>>

NextBand == BandService \/ BandCli

SpecBand == InitBand /\ [][NextBand]_vars

\* the tier a motive text stands for, 4 the highest
TierOf(motivo) ==
    CASE motivo \in {"Alto riesgo: múltiples factores académicos y personales",
                     "Alto riesgo: multiples factores academicos y personales"} -> 4
      [] motivo = "Riesgo medio: bajo promedio o problemas personales" -> 3
      [] motivo = "Riesgo leve: dificultad para estudiar o motivación baja" -> 2
      [] motivo = "Sin riesgo aparente" -> 1
      [] OTHER -> 0

\* the percentages at and next to each threshold, and the two ends
EdgePercentages ==
    {0, 3999, 4000, 4001, 5999, 6000, 6001, 7999, 8000, 8001, 10000}

BandOfPath(path, q) == IF path = "service" THEN FourBandService(q) ELSE FourBandCli(q)

\* C4: every percentage 0.00..100.00 gets exactly one band by left-closed
\* thresholds, High from 80, Medium-High from 60, Medium-Low from 40, Low
\* below; a percentage on a threshold is in the higher band and the band
\* never decreases as the percentage grows.
C4_FourBands ==
    clasif.path # "none" =>
        LET p == clasif.riesgo
            t == TierOf(clasif.motivo)
        IN /\ p \in 0..10000
           /\ t \in 1..4
           /\ (t = 4) = (p >= 8000)
           /\ (t = 3) = (p >= 6000 /\ p < 8000)
           /\ (t = 2) = (p >= 4000 /\ p < 6000)
           /\ (t = 1) = (p < 4000)
           /\ \A q \in EdgePercentages :
                 /\ q <= p => TierOf(BandOfPath(clasif.path, q).motivo) <= t
                 /\ q >= p => TierOf(BandOfPath(clasif.path, q).motivo) >= t

\* 79.996% rounds to 80.00 and is High; 79.99 is Medium-High
C4_Witness ==
    /\ clasif.path = "service"
    /\ prob = 79996
    /\ clasif.riesgo = 8000
    /\ TierOf(clasif.motivo) = 4

----------------------------------------------------------------------------
(* Claims on the results store *)

\* the response of the step reports the operations it wrote: operation k is
\* the last one written for its student
LastFor(r, k) ==
    /\ k \in 1..r.written
    /\ \A l \in (k + 1)..r.written : r.ops[l].filter # r.ops[k].filter

\* C5: the store holds at most one assessment per student id, and after a
\* sync that assessment is the one the sync wrote last for the student: the
\* write replaces the prior assessment.
C5_OnePerStudentLastWritten ==
    [][/\ \A i, j \in DOMAIN predicciones' :
             predicciones'[i].id_alumno = predicciones'[j].id_alumno => i = j
       /\ \A k \in DOMAIN resp'.ops :
             LastFor(resp', k) =>
                \E i \in DOMAIN predicciones' :
                   predicciones'[i] = resp'.ops[k].set @@ [id_alumno |-> resp'.ops[k].filter]
      ]_vars

\* the step is the second of two identical syncs in a row, both completed,
\* with no survey arriving in between
Replay == lastSync.n >= 1 /\ lastSync'.n = 2

\* C6 as stated: the replay of a sync leaves every stored field of every
\* assessment as the first call left it and creates no record.
C6_ReplayLeavesStoreUnchanged == [][Replay => predicciones' = predicciones]_vars

\* C6 amended: the replay of a sync creates no record and leaves every
\* stored field other than timestamp as the first call left it.
C6_ReplayKeepsAllButTimestamp ==
    [][Replay =>
         /\ Len(predicciones') = Len(predicciones)
         /\ \A i \in DOMAIN predicciones :
               /\ DOMAIN predicciones'[i] = DOMAIN predicciones[i]
               /\ \A f \in DOMAIN predicciones[i] \ {"timestamp"} :
                     predicciones'[i][f] = predicciones[i][f]
      ]_vars

\* the command-line predictor has synced the same student twice in a row
C6_Witness ==
    /\ lastSync.n = 2
    /\ lastSync.op = "cli"
    /\ resp.written = 1
    /\ \E i \in DOMAIN predicciones :
          /\ predicciones[i].id_alumno = resp.ops[1].filter
          /\ predicciones[i].timestamp = Num(clock)

----------------------------------------------------------------------------
(* Claims on the batch endpoint *)

\* the calls of the response that scored
GoodCalls(r) == SelectSeq(r.calls, LAMBDA c : c.ok)

\* C7: in a saving batch a survey that fails to classify is the only one
\* left out: every survey that classifies has its upsert submitted, in
\* order, and the call answers 200 when the store took the operations.
C7_BatchFailureIsolated ==
    (resp.op = "batch" /\ resp.arg = Bool(TRUE)) =>
        /\ Len(resp.calls) = Len(encuestas)
        /\ \A i \in DOMAIN encuestas : resp.calls[i].id = encuestas[i].id_alumno
        /\ Len(resp.ops) = Len(GoodCalls(resp))
        /\ \A j \in DOMAIN resp.ops : resp.ops[j].filter = GoodCalls(resp)[j].id
        /\ (resp.written = Len(resp.ops) => resp.status = 200)

\* a batch whose first survey failed and whose second was upserted
C7_Witness ==
    /\ resp.op = "batch"
    /\ resp.arg = Bool(TRUE)
    /\ resp.status = 200
    /\ Len(resp.calls) >= 2
    /\ ~resp.calls[1].ok
    /\ resp.calls[2].ok
    /\ resp.written = Len(resp.ops)
    /\ \E i \in DOMAIN predicciones : predicciones[i].id_alumno = resp.calls[2].id

\* the counts the summary of a saving batch carries
SummaryCounts == {"predicciones_procesadas", "modified", "upserted"}

\* C8: the summary of a batch sync that skipped a survey reports the count
\* submitted, created and updated, N-k persisted for k failures, and carries
\* the skipped identities beside the counts.
C8_SummaryNamesSkipped ==
    (/\ resp.op = "batch" /\ resp.arg = Bool(TRUE) /\ resp.status = 200
     /\ resp.ops # <<>>
     /\ \E i \in DOMAIN resp.calls : ~resp.calls[i].ok) =>
        /\ SummaryCounts \subseteq DOMAIN resp.body
        /\ resp.body.predicciones_procesadas = Len(GoodCalls(resp))
        /\ DOMAIN resp.body \ SummaryCounts # {}

----------------------------------------------------------------------------
(* Claims on readiness and on the error statuses *)

\* a joblib.load of the start-up failed
LoadFailed == ~(artifact.model_ok /\ artifact.enc_ok)

\* the operations that score surveys
ScoringOps == {"predict", "from_db", "by_matricula", "batch"}

\* C9: after a failed load the service is up with the model not loaded,
\* health and estado report it, every scoring fails with "Modelo no cargado"
\* before the classifier is invoked, and nothing is written to the store.
C9_NotReadyFailsFast ==
    /\ (LoadFailed /\ resp.op = "estado") => ~resp.body.modelo_cargado
    /\ (LoadFailed /\ started) =>
          /\ _model = Null
          /\ resp.op = "health" => (resp.status = 200 /\ ~resp.body.model_loaded)
          /\ resp.op \in ScoringOps =>
                /\ \A i \in DOMAIN resp.calls :
                      /\ ~resp.calls[i].ok
                      /\ resp.calls[i].err = "Modelo no cargado"
                      /\ ~resp.calls[i].invoked
                /\ (resp.op # "batch" /\ resp.calls # <<>>) =>
                      (resp.status = 500 /\ resp.detail = "Modelo no cargado")
                /\ resp.ops = <<>>
          /\ predicciones = <<>>

\* a saving batch over a non-empty collection after a failed load
C9_Witness ==
    /\ LoadFailed
    /\ started
    /\ resp.op = "batch"
    /\ resp.arg = Bool(TRUE)
    /\ Len(resp.calls) >= 1

\* the condition a single-record response answers to
CondOf(r) ==
    CASE r.op = "predict" -> IF _model = Null THEN "not-ready" ELSE "none"
      [] r.op = "from_db" ->
           IF "id_alumno" \notin DOMAIN r.arg.m THEN "invalid-input"
           ELSE IF find_one(encuestas, "id_alumno", r.arg.m["id_alumno"]) = Null
           THEN "not-found"
           ELSE IF _model = Null THEN "not-ready" ELSE "none"
      [] r.op = "by_matricula" ->
           IF "matricula" \notin DOMAIN r.arg.m THEN "invalid-input"
           ELSE IF find_one(Alumnos, "matricula", r.arg.m["matricula"]) = Null
           THEN "not-found"
           ELSE IF find_one(encuestas, "id_alumno",
                            find_one(Alumnos, "matricula", r.arg.m["matricula"])._id) = Null
           THEN "not-found"
           ELSE IF _model = Null THEN "not-ready" ELSE "none"
      [] r.op = "buscar_alumno" ->
           IF find_one(Alumnos, "matricula", r.arg) = Null THEN "not-found"
           ELSE IF find_one(encuestas, "id_alumno",
                            find_one(Alumnos, "matricula", r.arg)._id) = Null
           THEN "not-found"
           ELSE IF modelo = Null \/ label_encoders = Null THEN "not-ready" ELSE "none"
      [] OTHER -> "none"

\* C10: a single-record scoring call reports not-ready, not-found and
\* invalid-input apart: two answers of one endpoint to two different
\* conditions never carry the same status.
C10_DistinctConditions ==
    [][(/\ resp.op = resp'.op
        /\ CondOf(resp) # "none"
        /\ CondOf(resp') # "none"
        /\ CondOf(resp) # CondOf(resp')) => resp.status # resp'.status]_vars

----------------------------------------------------------------------------
(* Claims on a store that rejects a write *)

\* C11: a batch sync whose bulk write is rejected part-way still returns a
\* summary: the call answers 200 with the counts, and the operations
\* written before the rejection stay in the store.
C11_SummaryOnWriteFailure ==
    (resp.op = "batch" /\ resp.arg = Bool(TRUE) /\ resp.written < Len(resp.ops)) =>
        /\ resp.status = 200
        /\ resp.body # Null
        /\ \A k \in 1..resp.written :
              \E i \in DOMAIN predicciones :
                 predicciones[i].id_alumno = resp.ops[k].filter

----------------------------------------------------------------------------
(* Claims on the encoded record *)

\* the affirmative spellings, in either case, with and without the accent
Affirmative == {"Sí", "Si", "sí", "si", "SI", "SÍ"}

\* C12: each boolean-like feature of the encoded record is 1 when the survey
\* holds an affirmative spelling, whatever its case and accent, and 0 for
\* every other value, None included.
C12_AffirmativeSpellings ==
    (X.path \in {"service", "cli"} /\ X.out.ok) =>
        \A c \in BoolCols \cap Range(X.out.v.cols) :
            X.out.v.row[c] =
               IF NormalizedRow(doc)[c].k = "str" /\ NormalizedRow(doc)[c].s \in Affirmative
               THEN Num(1) ELSE Num(0)

\* C13: every feature of the encoded record is a number, also when the
\* survey holds None or nothing for a numeric or a categorical field.
C13_AllNumeric ==
    (X.path \in {"service", "cli"} /\ X.out.ok) =>
        \A c \in Range(FeatureCols) \cap Range(X.out.v.cols) : X.out.v.row[c].k = "num"

\* C14: id_alumno and matricula are not among the columns of the vector the
\* classifier is handed, with or without its expected-column list.
C14_IdentityNotInVector ==
    (X.path \in {"service", "cli"} /\ X.out.ok) =>
        Range(IdentityCols) \cap Range(X.out.v.cols) = {}

----------------------------------------------------------------------------
(* Claims on the identity lookup *)

\* db.grupos holds the group the student document names
GroupResolves(al) == \E i \in DOMAIN Grupos : Grupos[i]._id = Get(al, "id_grupo", Null)

\* one of the three name fields of the student document is not empty
NameResolves(al) ==
    \E f \in {"nombre", "apellido_paterno", "apellido_materno"} :
        Get(al, f, Str("")) # Str("")

\* C15: a stored assessment of a student whose group or display name does
\* not resolve carries "Desconocido" in the unresolved field.
C15_UnknownPlaceholder ==
    \A i \in DOMAIN predicciones : \A j \in DOMAIN Alumnos :
        Alumnos[j]._id = predicciones[i].id_alumno =>
            /\ ~GroupResolves(Alumnos[j]) =>
                  predicciones[i].nombre_grupo = Str("Desconocido")
            /\ ~NameResolves(Alumnos[j]) =>
                  predicciones[i].nombre_completo = Str("Desconocido")

----------------------------------------------------------------------------
(* Claims on the survey that is scored *)

\* the survey of the student inserted last
NewestOf(id) ==
    find_sorted(encuestas, "id_alumno", id)[Len(find_sorted(encuestas, "id_alumno", id))]

\* C16: an assessment answered by the score-by-enrollment endpoint is the
\* one computed from the student's most recently inserted survey.
C16_NewestSurveyScored ==
    (resp.op = "by_matricula" /\ resp.status = 200) =>
        /\ _predict_single_doc(NewestOf(resp.body.id_alumno), _model, _label_encoders,
                               _feature_names).ok
        /\ _predict_single_doc(NewestOf(resp.body.id_alumno), _model, _label_encoders,
                               _feature_names).v.riesgo = resp.body.riesgo

====
